---- MODULE Spec2Model ----
(***************************************************************************)
(* Model of code/data.py: the summary builder (create_summary), the slice  *)
(* loader (load) and the root/summary bootstrap (set_root and the module   *)
(* body that calls it).                                                     *)
(*                                                                         *)
(* A volume is a sequence of slices and a slice a sequence of voxels; the  *)
(* directories on disk are fixed sample data, drawn in Init.  Random draws *)
(* (np.random.rand, randint, shuffle) and the order in which glob lists a  *)
(* directory are nondeterministic choices.  Every operation records what   *)
(* it did in the variable res, so that its result can be stated as a       *)
(* predicate of the state that follows the call.                           *)
(***************************************************************************)
EXTENDS Integers, Sequences, FiniteSets, TLC

\* ------------------------------------------------------------------ bounds
\* largest count n passed to load
MaxN == 2
\* largest slice index z passed to load (the sample volumes have 2 or 3 slices)
MaxZ == 2

\* ------------------------------------------------------------- sample data
None == "None"
Unset == "<unbound>"
DefaultRoot == "/data/brats/npy"
FallbackRoot == "../data"
Roots == {DefaultRoot, FallbackRoot}
ModeSet == {"train", "valid"}

\* valid_ratio and np.random.rand() in tenths: 2 is 0.2, rand() is in [0, 1)
DefaultValidRatio == 2
RandTenths == {0, 2, 3, 9}
ValidRatios == {0, 2, 10}

NoFile == [dat |-> <<>>, lbl |-> <<>>, hasDat |-> FALSE, hasLbl |-> FALSE]
\* tumour in slice 2 only; positive intensities 4, 2, 6
VolMixed == [dat |-> << <<0, 4>>, <<2, 6>>, <<-1, 0>> >>,
             lbl |-> << <<0, 0>>, <<0, 1>>, <<0, 0>> >>,
             hasDat |-> TRUE, hasLbl |-> TRUE]
\* every positive intensity is 5 (sd = 0); tumour in every slice
VolFlat == [dat |-> << <<5, 5>>, <<0, 5>> >>,
            lbl |-> << <<1, 1>>, <<2, 0>> >>,
            hasDat |-> TRUE, hasLbl |-> TRUE]
\* no tumour at all; positive intensities 1, 3
VolNeg == [dat |-> << <<1, 0>>, <<3, -2>> >>,
           lbl |-> << <<0, 0>>, <<0, 0>> >>,
           hasDat |-> TRUE, hasLbl |-> TRUE]
\* a study directory that holds a label file and no dat.npy
VolNoDat == [dat |-> <<>>, lbl |-> << <<0, 1>> >>, hasDat |-> FALSE, hasLbl |-> TRUE]

StudyIds == {"s1", "s2", "s3"}
NoDir == [exists |-> FALSE, vols |-> [s \in StudyIds |-> NoFile]]
DirA == [exists |-> TRUE,
         vols |-> [s \in StudyIds |-> IF s = "s1" THEN VolMixed
                                      ELSE IF s = "s2" THEN VolFlat ELSE NoFile]]
DirB == [exists |-> TRUE,
         vols |-> [s \in StudyIds |-> IF s = "s2" THEN VolNeg
                                      ELSE IF s = "s3" THEN VolNoDat ELSE NoFile]]

VARIABLES fs, pickle, root, summary, started, res
vars == <<fs, pickle, root, summary, started, res>>

\* ---------------------------------------------------------------- helpers
RECURSIVE SumSeq(_)
SumSeq(s) == IF s = <<>> THEN 0 ELSE Head(s) + SumSeq(Tail(s))

RECURSIVE Flatten(_)
Flatten(ss) == IF ss = <<>> THEN <<>> ELSE Head(ss) \o Flatten(Tail(ss))

Squares(s) == [i \in 1..Len(s) |-> s[i] * s[i]]
Positive(v) == v > 0

\* np.mean(dat[dat > 0]) as the fraction num/den; nan when nothing is positive
Mean(dat) ==
  LET p == SelectSeq(Flatten(dat), Positive)
  IN  IF Len(p) = 0 THEN [nan |-> TRUE, num |-> 0, den |-> 1]
      ELSE [nan |-> FALSE, num |-> SumSeq(p), den |-> Len(p)]

\* np.std(dat[dat > 0]) as sqrt(num)/den: n * sum(v^2) - sum(v)^2 over n^2
Std(dat) ==
  LET p == SelectSeq(Flatten(dat), Positive)
  IN  IF Len(p) = 0 THEN [nan |-> TRUE, num |-> 0, den |-> 1]
      ELSE [nan |-> FALSE,
            num |-> Len(p) * SumSeq(Squares(p)) - SumSeq(p) * SumSeq(p),
            den |-> Len(p)]

\* ------------------------------------------------- create_summary (21-52)
\* glob.glob('%s/*/dat.npy' % root): the study directories that hold a dat.npy
Scanned(dir) == IF dir.exists THEN {s \in StudyIds : dir.vols[s].hasDat} ELSE {}

\* the orders in which glob may list them
Orders(S) == {o \in [1..Cardinality(S) -> S] : \A i, j \in 1..Cardinality(S) : o[i] = o[j] => i = j}

\* 'train' if np.random.rand() > valid_ratio else 'valid'
Group(r, vr) == IF r > vr THEN "train" ELSE "valid"

\* the dictionary appended to summary[group]
StudyStats(dir, sid) ==
  [studyid |-> sid, mean |-> Mean(dir.vols[sid].dat), sd |-> Std(dir.vols[sid].dat)]

\* the loop stopping one study early
RECURSIVE ScanLoopSkipsLast(_, _, _, _, _, _)
ScanLoopSkipsLast(acc, dir, order, draws, vr, i) ==
  IF i >= Len(order) THEN acc
  ELSE LET g == Group(draws[i], vr)
           e == StudyStats(dir, order[i])
       IN  ScanLoopSkipsLast([acc EXCEPT ![g] = Append(acc[g], e)], dir, order, draws, vr, i + 1)

\* the loop over dfiles: each study is appended to the list of its group
RECURSIVE ScanLoop(_, _, _, _, _, _)
ScanLoop(acc, dir, order, draws, vr, i) ==
  IF i > Len(order) THEN acc
  ELSE LET g == Group(draws[i], vr)
           e == StudyStats(dir, order[i])
       IN  ScanLoop([acc EXCEPT ![g] = Append(acc[g], e)], dir, order, draws, vr, i + 1)

\* pickle.dump: the dictionary written out key by key, entry by entry
DumpList(key, l) ==
  [i \in 1..Len(l) |-> [key |-> key, studyid |-> l[i].studyid, mean |-> l[i].mean, sd |-> l[i].sd]]
Dumps(s) == DumpList("train", s.train) \o DumpList("valid", s.valid)

\* pickle.load: the dictionary read back
LoadList(key, data) ==
  LET IsKey(e) == e.key = key
      es == SelectSeq(data, IsKey)
  IN  [i \in 1..Len(es) |-> [studyid |-> es[i].studyid, mean |-> es[i].mean, sd |-> es[i].sd]]
Loads(data) == [train |-> LoadList("train", data), valid |-> LoadList("valid", data)]

NoPickle == [exists |-> FALSE, data |-> <<>>]

\* create_summary(root, valid_ratio): the outcome and the summary file it leaves.
\* open(..., 'wb') fails when the root directory does not exist (glob found
\* nothing there, so the loop did not run).
create_summary(files, dir, rt, vr, order, draws) ==
  IF ~dir.exists
  THEN [outcome |-> "FileNotFoundError", files |-> files]
  ELSE [outcome |-> "ok",
        files |-> [files EXCEPT ![rt] =
                     [exists |-> TRUE,
                      data |-> Dumps(ScanLoop([train |-> <<>>, valid |-> <<>>],
                                              dir, order, draws, vr, 1))]]]

\* ------------------------------------------------------ set_root (128-143)
\* loc = '/data/brats/npy' if os.path.exists('/data/brats/npy') else '../data'
ResolveRoot(loc, disk) ==
  IF loc = None THEN (IF disk[DefaultRoot].exists THEN DefaultRoot ELSE FallbackRoot)
  ELSE loc

\* a set_root that rebuilds whether or not the file exists
NeedsBuildAlways(files, rt) == TRUE

\* whether set_root calls create_summary: not os.path.exists(summary_file)
NeedsBuild(files, rt) == ~files[rt].exists

NoSummary == [defined |-> FALSE, train |-> <<>>, valid |-> <<>>]
Defined(s) == [defined |-> TRUE, train |-> s.train, valid |-> s.valid]

\* root after a set_root whose create_summary raised: line 138 ran before it
RootAfterFailure(old, new) == new

EmptyRes ==
  [op |-> "none", outcome |-> "none", loc |-> None, built |-> FALSE, vr |-> 0,
   mode |-> "train", n |-> 0, sid |-> None, z |-> <<>>, return_mask |-> FALSE,
   random |-> FALSE, pairs |-> <<>>, ret |-> <<>>, line |-> 0]

\* no call is in progress: the caller holds no result it has not yet taken
Idle == res.op = "none"

\* the caller takes the result (the returned arrays or the exception) of the
\* call it made; the next call starts from there
Return ==
  /\ ~Idle
  /\ res' = EmptyRes
  /\ UNCHANGED <<fs, pickle, root, summary, started>>

\* the body of set_root(loc); a build lists the directory in some order and
\* draws one random number per study
SetRootBody(loc) ==
  LET rt == ResolveRoot(loc, fs)
      build == NeedsBuild(pickle, rt)
  IN  \E order \in (IF build THEN Orders(Scanned(fs[rt])) ELSE {<<>>}) :
        \E draws \in [1..Len(order) -> RandTenths] :
          LET made == IF build
                      THEN create_summary(pickle, fs[rt], rt, DefaultValidRatio, order, draws)
                      ELSE [outcome |-> "ok", files |-> pickle]
          IN  /\ pickle' = made.files
              /\ IF made.outcome = "ok"
                 THEN /\ root' = rt
                      /\ summary' = Defined(Loads(made.files[rt].data))
                 ELSE /\ root' = RootAfterFailure(root, rt)
                      /\ summary' = summary
              /\ res' = [EmptyRes EXCEPT !.op = "set_root", !.outcome = made.outcome,
                                         !.loc = loc, !.built = build,
                                         !.line = IF made.outcome = "ok" THEN 0 ELSE 52]
              /\ UNCHANGED fs

\* lines 145-147: the module body calls set_root() once, with no argument.
\* When that call raises, the functions defined above it stay bound in the
\* namespace the file was run in (python -i, %run, exec) with root assigned
\* and summary unbound; under a plain import the module is discarded instead,
\* which is the behaviour that stops here.
ModuleInit ==
  /\ ~started
  /\ started' = TRUE
  /\ SetRootBody(None)

\* a later call set_root(loc)
SetRoot ==
  /\ started
  /\ Idle
  /\ UNCHANGED started
  /\ \E loc \in Roots \cup {None} : SetRootBody(loc)

\* a call create_summary(root, valid_ratio) by the user
CreateSummary ==
  /\ started
  /\ Idle
  /\ \E rt \in Roots, vr \in ValidRatios :
       \E order \in Orders(Scanned(fs[rt])) :
         \E draws \in [1..Len(order) -> RandTenths] :
           LET made == create_summary(pickle, fs[rt], rt, vr, order, draws)
           IN  /\ pickle' = made.files
               /\ res' = [EmptyRes EXCEPT !.op = "create_summary",
                                          !.outcome = made.outcome,
                                          !.loc = rt, !.vr = vr, !.built = TRUE,
                                          !.line = IF made.outcome = "ok" THEN 0 ELSE 52]
  /\ UNCHANGED <<fs, root, summary, started>>

\* ----------------------------------------------------------- load (54-126)
\* lines 80-85: the first record with this studyid, train before valid.
\* The n of the list comprehension is local to it (Python 3), so the argument
\* n is untouched.
Matches(l, sid) == {i \in 1..Len(l) : l[i].studyid = sid}
Min(S) == CHOOSE x \in S : \A y \in S : x <= y
FindStudy(s, sid) ==
  IF Matches(s.train, sid) # {}
  THEN [found |-> TRUE, mode |-> "train", ind |-> Min(Matches(s.train, sid)) - 1]
  ELSE IF Matches(s.valid, sid) # {}
  THEN [found |-> TRUE, mode |-> "valid", ind |-> Min(Matches(s.valid, sid)) - 1]
  ELSE [found |-> FALSE, mode |-> "valid", ind |-> 0]

\* line 79: both sid and z are given
ExactRequested(sid, z) == sid # None /\ z # <<>>

\* line 109: np.sum(lbl, axis=(1,2,3)), one sum per slice
ReduceSum(lbl) == [i \in 1..Len(lbl) |-> SumSeq(lbl[i])]

\* np.random.rand() > 0.5, in tenths
CoinTenths == {5, 6}
PositiveBranch(r) == r > 5

\* the comparison of line 110 with the two branches exchanged
CandidatesSwapped(lbl, positive) ==
  LET rs == [i \in 1..Len(lbl) |-> SumSeq(lbl[i])]
  IN  IF positive THEN {i - 1 : i \in {j \in 1..Len(lbl) : rs[j] = 0}}
      ELSE {i - 1 : i \in {j \in 1..Len(lbl) : rs[j] > 0}}

\* line 110: the slice indices (from 0) with a positive voxel, or with none
Candidates(lbl, positive) ==
  LET rs == ReduceSum(lbl)
  IN  IF positive THEN {i - 1 : i \in {j \in 1..Len(lbl) : rs[j] > 0}}
      ELSE {i - 1 : i \in {j \in 1..Len(lbl) : rs[j] = 0}}

\* line 115: (v - mean) / sd for one voxel; numpy divides by 0.0 without raising
Normalize(v, mean, sd) ==
  LET d == v * mean.den - mean.num
  IN  IF mean.nan \/ sd.nan THEN [kind |-> "nan", num |-> 0, rad |-> 0]
      ELSE IF sd.num = 0
      THEN [kind |-> IF d = 0 THEN "nan" ELSE IF d > 0 THEN "inf" ELSE "-inf",
            num |-> 0, rad |-> 0]
      ELSE [kind |-> "finite", num |-> d, rad |-> sd.num]

\* line 114: dat[z, ..., :1] > 0, cast to float32 at line 120
MaskOf(slice) == [i \in 1..Len(slice) |-> IF slice[i] > 0 THEN 1 ELSE 0]

\* an exception raised at a line of load
Failed(what, line) ==
  [outcome |-> what, line |-> line, pair |-> [mode |-> "train", ind |-> 0, studyid |-> None, z |-> 0, branch |-> "none"],
   dat |-> <<>>, lbl |-> <<>>, msk |-> <<>>]

\* lines 114-116 for slice z of the study: the three arrays appended
Slice(m, ind, stats, vol, z, branch) ==
  IF z >= Len(vol.dat) THEN Failed("IndexError", 114)
  ELSE IF z >= Len(vol.lbl) THEN Failed("IndexError", 116)
  ELSE [outcome |-> "ok", line |-> 0,
        pair |-> [mode |-> m, ind |-> ind, studyid |-> stats.studyid, z |-> z, branch |-> branch],
        dat |-> [i \in 1..Len(vol.dat[z + 1]) |-> Normalize(vol.dat[z + 1][i], stats.mean, stats.sd)],
        lbl |-> vol.lbl[z + 1],
        msk |-> MaskOf(vol.dat[z + 1])]

\* lines 108-112 when the candidate array is empty: z[0] on an empty array
EmptyCandidates(m, ind, stats, vol) == {Failed("IndexError", 112)}

\* lines 96-116 for one index: every result the random draws allow
ItemResults(s, rt, disk, m, ind, random, z) ==
  LET stats == s[m][ind + 1]
      vol == disk[rt].vols[stats.studyid]
  IN  IF ind + 1 > Len(s[m]) THEN {Failed("IndexError", 96)}
      ELSE IF ~disk[rt].exists \/ ~vol.hasDat THEN {Failed("FileNotFoundError", 100)}
      ELSE IF ~vol.hasLbl THEN {Failed("FileNotFoundError", 104)}
      ELSE IF ~random THEN {Slice(m, ind, stats, vol, z[1], "exact")}
      ELSE UNION {LET pos == PositiveBranch(r)
                      c == Candidates(vol.lbl, pos)
                  IN  IF c = {} THEN EmptyCandidates(m, ind, stats, vol)
                      ELSE {Slice(m, ind, stats, vol, k, IF pos THEN "positive" ELSE "negative")
                              : k \in c}
                  : r \in CoinTenths}

\* the loop of line 95: the runs over indices i..Len(inds); the first failure ends the call
RECURSIVE Runs(_, _, _, _, _, _, _, _)
Runs(s, rt, disk, m, inds, random, z, i) ==
  IF i > Len(inds) THEN {[outcome |-> "ok", line |-> 0, items |-> <<>>]}
  ELSE UNION {IF it.outcome # "ok"
              THEN {[outcome |-> it.outcome, line |-> it.line, items |-> <<>>]}
              ELSE {[outcome |-> r.outcome, line |-> r.line,
                     items |-> IF r.outcome = "ok" THEN <<it>> \o r.items ELSE <<>>]
                      : r \in Runs(s, rt, disk, m, inds, random, z, i + 1)}
              : it \in ItemResults(s, rt, disk, m, inds[i], random, z)}

\* a draw of one index whatever n is
RandomIndicesOne(len, n) == [1..1 -> 0..(len - 1)]

\* line 89: np.random.randint(0, len(summary[mode]), n)
RandomIndices(len, n) == [1..n -> 0..(len - 1)]

\* lines 118-126: the arrays stacked and returned
Returned(items, return_mask) ==
  LET dats == [i \in 1..Len(items) |-> items[i].dat]
      lbls == [i \in 1..Len(items) |-> items[i].lbl]
      msks == [i \in 1..Len(items) |-> items[i].msk]
  IN  IF return_mask THEN <<dats, lbls, msks>> ELSE <<dats, lbls>>

\* a lookup that keeps the requested mode
EffectiveModeKeepsRequested(mode, exact, hit) == mode

\* the cohort load reads from: the loop variable of line 80 overwrites mode
EffectiveMode(mode, exact, hit) == IF exact THEN hit.mode ELSE mode

\* whether load falls to the random draw of line 89
IsRandom(exact, hit) == ~(exact /\ hit.found)

\* load(mode, n, sid, z, return_mask): every result it can give.  With summary
\* unbound the first read of it raises NameError; randint raises ValueError on
\* an empty cohort and np.stack raises ValueError on an empty list (n = 0).
LoadResults(s, rt, disk, mode, n, sid, z, return_mask) ==
  LET call == [EmptyRes EXCEPT !.op = "load", !.mode = mode, !.n = n, !.sid = sid,
                               !.z = z, !.return_mask = return_mask]
      exact == ExactRequested(sid, z)
      hit == IF exact /\ s.defined THEN FindStudy(s, sid)
             ELSE [found |-> FALSE, mode |-> "valid", ind |-> 0]
      random == IsRandom(exact, hit)
      m == EffectiveMode(mode, exact, hit)
      pools == IF random THEN RandomIndices(Len(s[m]), n) ELSE {<<hit.ind>>}
  IN  IF ~s.defined
      THEN {[call EXCEPT !.outcome = "NameError", !.line = IF exact THEN 81 ELSE 89]}
      ELSE IF random /\ Len(s[m]) = 0
      THEN {[call EXCEPT !.outcome = "ValueError", !.random = TRUE, !.line = 89]}
      ELSE IF random /\ n = 0
      THEN {[call EXCEPT !.outcome = "ValueError", !.random = TRUE, !.line = 118]}
      ELSE {[call EXCEPT !.outcome = r.outcome, !.random = random, !.line = r.line,
                         !.pairs = [i \in 1..Len(r.items) |-> r.items[i].pair],
                         !.ret = IF r.outcome = "ok" THEN Returned(r.items, return_mask) ELSE <<>>]
              : r \in UNION {Runs(s, rt, disk, m, inds, random, z, 1) : inds \in pools}}

ZArgs == {<<>>} \cup {<<k>> : k \in 0..MaxZ}

Load ==
  /\ started
  /\ Idle
  /\ \E mode \in ModeSet, n \in 0..MaxN, sid \in StudyIds \cup {None}, z \in ZArgs,
        return_mask \in BOOLEAN :
       res' \in LoadResults(summary, root, fs, mode, n, sid, z, return_mask)
  /\ UNCHANGED <<fs, pickle, root, summary, started>>

Init ==
  /\ fs \in {d \in [Roots -> {NoDir, DirA, DirB}] :
               /\ d[DefaultRoot] \in {NoDir, DirA}
               /\ d[FallbackRoot] \in {NoDir, DirB}}
  /\ pickle = [r \in Roots |-> NoPickle]
  /\ root = Unset
  /\ summary = NoSummary
  /\ started = FALSE
  /\ res = EmptyRes

Next == ModuleInit \/ SetRoot \/ CreateSummary \/ Load \/ Return
Spec == Init /\ [][Next]_vars

\* load and the two forms of set_root only: no create_summary call by the user
NextSetRootLoad == ModuleInit \/ SetRoot \/ Load \/ Return
SpecSetRootLoad == Init /\ [][NextSetRootLoad]_vars

\* ------------------------------------------------------------------ claims
LoadReturned == res.op = "load" /\ res.outcome = "ok"
Ids(l) == {l[i].studyid : i \in 1..Len(l)}
Known(sid) == sid \in Ids(summary.train) \cup Ids(summary.valid)
\* the slice of the label volume a selected pair names, at the current root
LabelSlice(p) == fs[root].vols[p.studyid].lbl[p.z + 1]

\* C1: an exact lookup (sid and z both given) of a study that no record of
\* the loaded summary names fails with NotFound and returns nothing.
C1_UnknownStudyFailsNotFound ==
  (res.op = "load" /\ summary.defined /\ res.sid # None /\ res.z # <<>> /\ ~Known(res.sid))
    => (res.outcome = "NotFound" /\ res.ret = <<>>)

\* C2: an exact lookup of a known study selects exactly one pair, the first
\* record with that studyid (train before valid) and the requested z, whatever
\* mode and n were requested; the record and the slice returned are those of
\* the cohort where the study was found.
C2_ExactLookupSelectsTheStudy ==
  (res.op = "load" /\ summary.defined /\ res.sid # None /\ res.z # <<>> /\ Known(res.sid))
    => LET cohort == IF res.sid \in Ids(summary.train) THEN "train" ELSE "valid"
           first == CHOOSE i \in 1..Len(summary[cohort]) :
                      /\ summary[cohort][i].studyid = res.sid
                      /\ \A j \in 1..(i - 1) : summary[cohort][j].studyid # res.sid
       IN  /\ ~res.random
           /\ res.outcome \in {"ok", "IndexError", "FileNotFoundError"}
           /\ res.outcome = "ok" =>
                /\ res.pairs = <<[mode |-> cohort, ind |-> first - 1, studyid |-> res.sid,
                                  z |-> res.z[1], branch |-> "exact"]>>
                /\ Len(res.ret[1]) = 1
                /\ res.ret[2] = <<LabelSlice(res.pairs[1])>>

\* C2 witness: a study found in valid by a call that asked for 2 slices of train
C2_Witness ==
  /\ LoadReturned /\ ~res.random
  /\ res.mode = "train" /\ res.n = 2
  /\ res.pairs[1].mode = "valid"

\* C3: a random draw whose branch has no eligible slice fails with an explicit
\* EmptyCandidateSet condition, not by indexing the empty candidate array.
C3_EmptyCandidateSetIsExplicit ==
  (res.op = "load" /\ res.random /\ res.line = 112) => res.outcome = "EmptyCandidateSet"

\* C4: a load call made while no set_root has succeeded fails with
\* NotInitialized and returns nothing.
C4_LoadBeforeSetRootNotInitialized ==
  (res.op = "load" /\ ~summary.defined) => (res.outcome = "NotInitialized" /\ res.ret = <<>>)

\* C5: in every summary file written, each scanned study of that root appears
\* exactly once, under train or under valid, and no other study appears.
C5_Partition ==
  \A r \in Roots :
    pickle[r].exists =>
      LET data == pickle[r].data
      IN  /\ \A s \in Scanned(fs[r]) : Cardinality({i \in 1..Len(data) : data[i].studyid = s}) = 1
          /\ \A i \in 1..Len(data) : data[i].studyid \in Scanned(fs[r]) /\ data[i].key \in ModeSet

\* C5 witness: a written summary with a study in each cohort
C5_Witness ==
  \E r \in Roots :
    /\ pickle[r].exists
    /\ \E i, j \in 1..Len(pickle[r].data) :
         pickle[r].data[i].key = "train" /\ pickle[r].data[j].key = "valid"

\* C6: a successful set_root builds the summary file exactly when the root has
\* none, leaves an existing file unchanged, and leaves the process-wide summary
\* equal to the summary persisted at the root.
C6_SetRootBuildsOnlyWhenNeeded ==
  [][(res'.op = "set_root" /\ res'.outcome = "ok") =>
       /\ root' = (IF res'.loc # None THEN res'.loc
                   ELSE IF fs[DefaultRoot].exists THEN DefaultRoot ELSE FallbackRoot)
       /\ ~pickle[root'].exists => (res'.built /\ pickle'[root'].exists)
       /\ pickle[root'].exists => (~res'.built /\ pickle' = pickle)
       /\ \A r \in Roots \ {root'} : pickle'[r] = pickle[r]
       /\ summary'.defined
       /\ Dumps(summary') = pickle'[root'].data]_vars

\* C6 witness: a set_root that found the file and loaded it without a build
C6_Witness ==
  /\ res.op = "set_root" /\ res.outcome = "ok" /\ ~res.built
  /\ Len(summary.train) > 0 /\ Len(summary.valid) > 0

\* C7: load never returns a tensor normalised with the statistics of a study
\* whose sd is 0.
C7_NoDivisionByZeroSd ==
  LoadReturned =>
    \A i \in 1..Len(res.pairs) :
      LET sd == summary[res.pairs[i].mode][res.pairs[i].ind + 1].sd
      IN  ~(~sd.nan /\ sd.num = 0)

\* C8: every slice a random draw selects is a slice index of the drawn study
\* that belongs to the branch of its coin flip: one with a positive label voxel
\* on the positive branch, one with none on the negative branch.
C8_Stratification ==
  (LoadReturned /\ res.random) =>
    \A i \in 1..Len(res.pairs) :
      LET p == res.pairs[i]
          lbl == fs[root].vols[p.studyid].lbl
      IN  /\ p.z \in 0..(Len(lbl) - 1)
          /\ p.branch \in {"positive", "negative"}
          /\ p.branch = "positive" => \E k \in 1..Len(lbl[p.z + 1]) : lbl[p.z + 1][k] > 0
          /\ p.branch = "negative" => \A k \in 1..Len(lbl[p.z + 1]) : lbl[p.z + 1][k] = 0
          /\ res.ret[2][i] = lbl[p.z + 1]

\* C8 witness: one call that drew a positive and a negative slice
C8_Witness ==
  /\ LoadReturned /\ res.random
  /\ \E i, j \in 1..Len(res.pairs) :
       res.pairs[i].branch = "positive" /\ res.pairs[j].branch = "negative"

C10_SummaryIsThatOfRoot ==
  summary.defined =>
    /\ root \in Roots
    /\ pickle[root].exists
    /\ Dumps(summary) = pickle[root].data
====
